---- MODULE Spec2Model ----
(***************************************************************************)
(* Dictation session of SuperCmd (src/renderer/src/SuperCommandWhisper.tsx) *)
(* modelled as a state machine: one action per event handler or per         *)
(* continuation after an await.  Strings are sequences of one-character     *)
(* strings; " " stands for any whitespace and "'" for any of the quote      *)
(* characters that normalizeTranscript strips.                              *)
(***************************************************************************)
EXTENDS Integers, Sequences, FiniteSets, TLC

\* ---------------------------------------------------------------- bounds
MaxEvents == 2      \* transcript events / periodic transcription results
MaxStops  == 2      \* explicit stop triggers (Escape, stop-and-close hotkey)
MaxChunks == 1      \* recorder chunks delivered to ondataavailable

\* ------------------------------------------------------- program constants
MinBlobBytes == 1000

\* ---------------------------------------------------------------- inputs
\* Raw transcripts a backend may deliver (before normalizeTranscript).
RawTranscripts ==
  { <<>>,
    <<"a">>,
    <<"a", "b">>,
    <<"'", "a", " ", " ">>,
    <<" ", "'", " ">> }

ChunkSizes == {400, 1000}

\* --------------------------------------------------------- string helpers
IsSpace(c) == c = " "
IsQuote(c) == c = "'"

RECURSIVE DropFrontSpaces(_)
DropFrontSpaces(s) ==
  IF Len(s) > 0 /\ IsSpace(Head(s)) THEN DropFrontSpaces(Tail(s)) ELSE s

RECURSIVE DropBackSpaces(_)
DropBackSpaces(s) ==
  IF Len(s) > 0 /\ IsSpace(s[Len(s)])
    THEN DropBackSpaces(SubSeq(s, 1, Len(s) - 1)) ELSE s

RECURSIVE DropFrontQuotes(_)
DropFrontQuotes(s) ==
  IF Len(s) > 0 /\ IsQuote(Head(s)) THEN DropFrontQuotes(Tail(s)) ELSE s

RECURSIVE DropBackQuotes(_)
DropBackQuotes(s) ==
  IF Len(s) > 0 /\ IsQuote(s[Len(s)])
    THEN DropBackQuotes(SubSeq(s, 1, Len(s) - 1)) ELSE s

\* .replace(/\s+/g, ' ')
RECURSIVE CollapseSpaces(_)
CollapseSpaces(s) ==
  IF Len(s) = 0 THEN <<>>
  ELSE IF IsSpace(Head(s))
    THEN <<" ">> \o CollapseSpaces(DropFrontSpaces(Tail(s)))
    ELSE <<Head(s)>> \o CollapseSpaces(Tail(s))

\* .replace(/^[quotes]+|[quotes]+$/g, '')
StripQuotes(s) == DropBackQuotes(DropFrontQuotes(s))

\* .trim()
Trim(s) == DropBackSpaces(DropFrontSpaces(s))

normalizeTranscript(value) == Trim(StripQuotes(CollapseSpaces(value)))

\* String.prototype.slice(start) for 0 <= start
Slice(s, start) == SubSeq(s, start + 1, Len(s))

RECURSIVE SumSeq(_)
SumSeq(s) == IF Len(s) = 0 THEN 0 ELSE Head(s) + SumSeq(Tail(s))

IsPrefix(p, s) == Len(p) <= Len(s) /\ SubSeq(s, 1, Len(p)) = p

Max(a, b) == IF a >= b THEN a ELSE b

\* ------------------------------------------------------------------ state
VARIABLES
  state,                       \* useState<WhisperState>
  backendRef,                  \* "native" | "whisper"
  combinedTranscriptRef,
  liveTypedTextRef,
  committedTextRef,
  typedCountRef,
  finalizingRef,
  editorFocusRestoredRef,
  editorFocusRestoreTimerRef,  \* TRUE: the 150 ms restore timer is armed
  mediaStreamRef,              \* TRUE: microphone stream held by the visualizer
  visualizerRefs,              \* rafRef, sourceNodeRef, analyserRef, audioContextRef
  mediaRecorderRef,            \* TRUE: the ref holds a recorder
  recorderState,               \* "none" | "recording" | "inactive"
  audioChunksRef,              \* sequence of chunk sizes in bytes
  periodicTimerRef,            \* TRUE: the 3.5 s interval is armed
  transcribeInFlightRef,
  nativeChunkDisposerRef,      \* TRUE: the native chunk listener is registered
  nativeRunning,               \* the native recognizer process is alive
  liveTypeQueue,               \* edits chained on liveTypeQueueRef, not yet begun
  inFlight,                    \* text-injection calls awaiting their result
  settingsPending,             \* getSettings() has not resolved yet
  speechLanguage,              \* useState('en-US')
  startPc,                     \* position of startListening
  backend,                     \* the const backend read by startListening
  sendPc,                      \* position of sendTranscription: reading the blob, or awaiting whisperTranscribe
  finPc,                       \* position of finalizeAndClose
  focusTarget,                 \* text present in the focused application
  hist                         \* observation record (calls made, counters)

refs == <<combinedTranscriptRef, liveTypedTextRef, committedTextRef, typedCountRef>>
focusRefs == <<editorFocusRestoredRef, editorFocusRestoreTimerRef>>
recRefs == <<mediaRecorderRef, recorderState, audioChunksRef, periodicTimerRef>>
natRefs == <<nativeChunkDisposerRef, nativeRunning>>
queueVars == <<liveTypeQueue, inFlight, focusTarget>>
settingsVars == <<settingsPending, speechLanguage>>

vars == <<state, backendRef, refs, finalizingRef, focusRefs, mediaStreamRef,
          visualizerRefs, recRefs,
          transcribeInFlightRef, natRefs, queueVars, settingsVars, startPc,
          backend, sendPc, finPc, hist>>

Backends == {"native", "whisper"}

\* settings.ai.speechLanguage; the component starts with useState('en-US').
DefaultLanguage == "en-US"
Languages == {"en-US", "de-DE"}

\* ------------------------------------------------------------ observation
HistInit ==
  [ restoreCalls |-> 0,        \* restoreLastFrontmostApp invocations
    finalizeRuns |-> 0,        \* entries into the body of finalizeAndClose
    stopTriggers |-> 0,        \* Escape / stop-and-close events received
    nEvents      |-> 0,        \* transcript events and transcription results
    nUpdates     |-> 0,        \* transcript updates folded into the session
    closeCalls   |-> 0,        \* onClose invocations
    anyFail      |-> FALSE,    \* some type/replace/paste call reported failure
    typedDeltas  |-> <<>>,     \* deltas delivered by successful typeTextLive
    monotone     |-> TRUE,     \* every update so far extended the previous one
    noShrink     |-> TRUE,     \* no update so far was shorter than the previous
    restoreCancelled |-> FALSE, \* finalize cleared the armed restore timer
    maxUpdateLen |-> 0,        \* length of the longest update so far
    begun        |-> <<>>,     \* ids of the updates whose injection call began
    lastDone     |-> [id |-> 0, text |-> <<>>, ok |-> FALSE],
    finLog       |-> <<>>,     \* paste/clipboard/replace calls made by finalize
    reconLive    |-> <<>>,     \* liveTypedText read by the reconciliation step
    reconBase    |-> <<>>,     \* combinedTranscript read by the reconciliation
    drained      |-> FALSE,    \* finalize has passed its await of the queue
    outstanding  |-> 0,        \* whisperTranscribe calls that have not returned
    fatal        |-> FALSE,    \* a submission failed with an authorization error
    streamLost   |-> FALSE,    \* getUserMedia gave a stream that no ref holds
    unmounted    |-> FALSE ]   \* the cleanup of the unmount effect has run

\* ------------------------------------------------------ audio visualizer
\* The four refs of the visualizer besides mediaStreamRef; TRUE: non-null.
NoVisualizer ==
  [rafRef |-> FALSE, sourceNodeRef |-> FALSE, analyserRef |-> FALSE,
   audioContextRef |-> FALSE]

\* window.AudioContext || window.webkitAudioContext: present, absent, or a
\* constructor that throws.
AudioContextCtors == {"ok", "missing", "throws"}

\* startVisualizer(stream): the refs after the call and whether an exception
\* left it.  Without a constructor it returns before it stores anything; an
\* exception of the constructor leaves it before the refs are assigned;
\* otherwise the stream and the graph are stored and tick() has scheduled the
\* first frame.
startVisualizer(v, stream, ctor) ==
  IF ctor = "missing"
    THEN [refs |-> v, mediaStreamRef |-> stream, threw |-> FALSE]
  ELSE IF ctor = "throws"
    THEN [refs |-> v, mediaStreamRef |-> stream, threw |-> TRUE]
    ELSE [refs |-> [rafRef |-> TRUE, sourceNodeRef |-> TRUE,
                    analyserRef |-> TRUE, audioContextRef |-> TRUE],
          mediaStreamRef |-> TRUE, threw |-> FALSE]

\* Variant that stops the tracks but keeps the stream in its ref.
stopVisualizerKeepsStream(v, stream, throws) ==
  [refs |-> NoVisualizer, mediaStreamRef |-> stream,
   cancelled |-> v.rafRef, disconnected |-> v.sourceNodeRef \/ v.analyserRef,
   closed |-> v.audioContextRef, tracksStopped |-> stream, failed |-> FALSE]

\* stopVisualizer: the refs after the call, what it released, and whether an
\* exception left it.  throws: disconnect() throws or close() rejects; both
\* are caught.
stopVisualizer(v, stream, throws) ==
  [refs |-> [rafRef |-> IF v.rafRef THEN FALSE ELSE v.rafRef,
             sourceNodeRef |-> IF v.sourceNodeRef THEN FALSE ELSE v.sourceNodeRef,
             analyserRef |-> IF v.analyserRef THEN FALSE ELSE v.analyserRef,
             audioContextRef |-> IF v.audioContextRef THEN FALSE
                                 ELSE v.audioContextRef],
   mediaStreamRef |-> IF stream THEN FALSE ELSE stream,
   cancelled |-> v.rafRef,
   disconnected |-> v.sourceNodeRef \/ v.analyserRef,
   closed |-> v.audioContextRef,
   tracksStopped |-> stream,
   failed |-> FALSE]

\* ------------------------------------------------------- focus restoration
\* Variant without the editorFocusRestoredRef guard.
restoreEditorFocusUnguarded(delayed) ==
  IF delayed
    THEN [restored |-> TRUE, timer |-> TRUE, ran |-> 0]
    ELSE [restored |-> TRUE, timer |-> editorFocusRestoreTimerRef, ran |-> 1]

\* restoreEditorFocusOnce(delayMs): the refs after the call and the number of
\* restoreLastFrontmostApp invocations it makes synchronously.
restoreEditorFocusOnce(delayed) ==
  IF editorFocusRestoredRef
    THEN [restored |-> TRUE, timer |-> editorFocusRestoreTimerRef, ran |-> 0]
  ELSE IF delayed
    THEN [restored |-> TRUE, timer |-> TRUE, ran |-> 0]
    ELSE [restored |-> TRUE, timer |-> editorFocusRestoreTimerRef, ran |-> 1]

\* ------------------------------------------------------- the focus target
\* Effect of a capability call on the text of the focused application.
DropLast(s, n) == IF n >= Len(s) THEN <<>> ELSE SubSeq(s, 1, Len(s) - n)

ApplyToFocus(f, c, ok) ==
  IF ~ok THEN f
  ELSE IF c.api = "replace" THEN DropLast(f, Len(c.old)) \o c.text
  ELSE f \o c.text

\* ------------------------------------------------------- the typing queue
\* An edit chained on liveTypeQueueRef.  kind "append" is the closure of
\* handleTranscriptUpdate, kind "full" the closure of sendTranscription.
AppendOp(fullTranscript, id) ==
  [kind |-> "append", full |-> fullTranscript, prev |-> <<>>, id |-> id]

FullOp(previous, normalized, id) ==
  [kind |-> "full", full |-> normalized, prev |-> previous, id |-> id]

\* Variant in which every closure reaches its capability call.
OpIssuesCallAlways(op, typed) == TRUE

\* Does the closure reach a capability call when it runs with typedCountRef = typed
OpIssuesCall(op, typed) ==
  IF op.kind = "append" THEN Len(op.full) > typed ELSE TRUE

\* The capability call the closure issues.
OpCall(op, typed) ==
  IF op.kind = "append"
    THEN [api |-> "type", old |-> <<>>, text |-> Slice(op.full, typed),
          full |-> op.full, kind |-> op.kind, id |-> op.id, src |-> "queue"]
  ELSE IF op.prev = <<>>
    THEN [api |-> "type", old |-> <<>>, text |-> op.full,
          full |-> op.full, kind |-> op.kind, id |-> op.id, src |-> "queue"]
    ELSE [api |-> "replace", old |-> op.prev, text |-> op.full,
          full |-> op.full, kind |-> op.kind, id |-> op.id, src |-> "queue"]

LiveCalls(calls) == {c \in calls : c.src = "queue"}

\* Run the chained closures from the head until one awaits a capability call.
RECURSIVE PumpQueue(_, _)
PumpQueue(q, typed) ==
  IF q = <<>> THEN [queue |-> <<>>, started |-> {}]
  ELSE IF OpIssuesCall(Head(q), typed)
    THEN [queue |-> Tail(q), started |-> {OpCall(Head(q), typed)}]
    ELSE PumpQueue(Tail(q), typed)

\* Variant that runs the closure at once instead of chaining it.
ChainOpUnchained(q, calls, op, typed) ==
  [queue |-> q, started |-> PumpQueue(<<op>>, typed).started]

\* liveTypeQueueRef.current = liveTypeQueueRef.current.then(op): the closure
\* runs at once when the chain is settled, otherwise it waits behind the tail.
ChainOp(q, calls, op, typed) ==
  IF q = <<>> /\ LiveCalls(calls) = {}
    THEN PumpQueue(<<op>>, typed)
    ELSE [queue |-> Append(q, op), started |-> {}]

\* Variant that advances the refs whatever the call reported.
LiveCallResultOnFailure(c, ok, typed, live) ==
  [typed |-> IF c.kind = "append" THEN Len(c.full) ELSE typed, live |-> c.full]

\* Variant that adds the transcript length to the count instead of setting it.
LiveCallResultAdds(c, ok, typed, live) ==
  IF ok
    THEN [typed |-> IF c.kind = "append" THEN typed + Len(c.full) ELSE typed,
          live |-> c.full]
    ELSE [typed |-> typed, live |-> live]

\* Variant that forgets to record the text after a successful replace.
LiveCallResultKeepsLive(c, ok, typed, live) ==
  IF ok /\ c.api # "replace"
    THEN [typed |-> IF c.kind = "append" THEN Len(c.full) ELSE typed, live |-> c.full]
    ELSE [typed |-> typed, live |-> live]

\* Variant that starts over after a failed call.
LiveCallResultResetsOnFailure(c, ok, typed, live) ==
  IF ok
    THEN [typed |-> IF c.kind = "append" THEN Len(c.full) ELSE typed, live |-> c.full]
    ELSE [typed |-> 0, live |-> <<>>]

\* What the closure does with the result of its capability call.
LiveCallResult(c, ok, typed, live) ==
  IF ok
    THEN [typed |-> IF c.kind = "append" THEN Len(c.full) ELSE typed, live |-> c.full]
    ELSE [typed |-> typed, live |-> live]

StartedIds(started) == IF started = {} THEN <<>> ELSE <<(CHOOSE c \in started : TRUE).id>>

\* A call of startVisualizer / stopVisualizer inside a handler.
StartVisualizer(ctor) ==
  LET r == startVisualizer(visualizerRefs, mediaStreamRef, ctor)
  IN mediaStreamRef' = r.mediaStreamRef /\ visualizerRefs' = r.refs

StopVisualizer ==
  \E r \in {stopVisualizer(visualizerRefs, mediaStreamRef, throws) :
              throws \in BOOLEAN} :
    mediaStreamRef' = r.mediaStreamRef /\ visualizerRefs' = r.refs

\* ------------------------------------------------------------------- Init
\* The component is mounted: refs hold their useRef initial values, the
\* settings load and the 80 ms auto-start timer are pending.
Init ==
  /\ state = "idle"
  /\ backendRef = "native"
  /\ combinedTranscriptRef = <<>>
  /\ liveTypedTextRef = <<>>
  /\ committedTextRef = <<>>
  /\ typedCountRef = 0
  /\ finalizingRef = FALSE
  /\ editorFocusRestoredRef = FALSE
  /\ editorFocusRestoreTimerRef = FALSE
  /\ mediaStreamRef = FALSE
  /\ visualizerRefs = NoVisualizer
  /\ mediaRecorderRef = FALSE
  /\ recorderState = "none"
  /\ audioChunksRef = <<>>
  /\ periodicTimerRef = FALSE
  /\ transcribeInFlightRef = FALSE
  /\ nativeChunkDisposerRef = FALSE
  /\ nativeRunning = FALSE
  /\ liveTypeQueue = <<>>
  /\ inFlight = {}
  /\ settingsPending = TRUE
  /\ speechLanguage = DefaultLanguage
  /\ startPc = "mounted"
  /\ backend = "none"
  /\ sendPc = "none"
  /\ finPc = "none"
  /\ focusTarget = <<>>
  /\ hist = HistInit

\* ------------------------------------------------------- settings effect
\* getSettings().then(...), unless the cleanup of the effect has set
\* cancelled (the component is removed): setSpeechLanguage(lang), then
\* backendRef.current = openaiApiKey ? whisper : native.  The render that
\* setSpeechLanguage asks for comes later.
SettingsLoaded(b, lang) ==
  /\ settingsPending
  /\ ~hist.unmounted
  /\ settingsPending' = FALSE
  /\ speechLanguage' = lang
  /\ backendRef' = b
  /\ UNCHANGED <<state, refs, finalizingRef, focusRefs, mediaStreamRef,
                 visualizerRefs, recRefs, transcribeInFlightRef, natRefs,
                 queueVars, startPc, backend, sendPc, finPc, hist>>

\* The auto-start effect (deps [startListening]) at a render in which the
\* lifecycle state is st and the language lang.  startListening is re-created
\* when either differs from the values of the render that armed the 80 ms
\* timer ('idle', 'en-US'): the cleanup of the effect clears the timer, and
\* the effect, run again, returns at autoStartDoneRef without arming a new
\* one.
autoStartEffect(pc, st, lang) ==
  IF pc = "mounted" /\ (st # "idle" \/ lang # DefaultLanguage)
    THEN "cancelled" ELSE pc

\* React renders the component after a setState and runs its effects while
\* the auto-start timer is armed.  (A render in which startListening is the
\* same, or one after the timer has fired, changes nothing.)
Render ==
  /\ ~hist.unmounted
  /\ startPc = "mounted"
  /\ autoStartEffect(startPc, state, speechLanguage) # startPc
  /\ startPc' = autoStartEffect(startPc, state, speechLanguage)
  /\ UNCHANGED <<state, backendRef, refs, finalizingRef, focusRefs,
                 mediaStreamRef, visualizerRefs, recRefs, transcribeInFlightRef,
                 natRefs, queueVars, settingsVars, backend, sendPc, finPc, hist>>

\* ------------------------------------------------------- startListening
\* The auto-start timer fires and calls the startListening of the render
\* that armed it, whose state is 'idle' (the test of line 377 passes whatever
\* setState has been called since): it resets the shared refs, sets Idle and
\* awaits getUserMedia.
StartListening ==
  /\ startPc = "mounted"
  /\ combinedTranscriptRef' = <<>>
  /\ liveTypedTextRef' = <<>>
  /\ liveTypeQueue' = <<>>
  /\ finalizingRef' = FALSE
  /\ editorFocusRestoredRef' = FALSE
  /\ audioChunksRef' = <<>>
  /\ transcribeInFlightRef' = FALSE
  /\ committedTextRef' = <<>>
  /\ typedCountRef' = 0
  /\ editorFocusRestoreTimerRef' = FALSE
  /\ nativeChunkDisposerRef' = FALSE
  /\ state' = "idle"
  /\ backend' = backendRef
  /\ startPc' = "acquiring"
  /\ UNCHANGED <<backendRef, mediaStreamRef, visualizerRefs, mediaRecorderRef, recorderState,
                 periodicTimerRef, nativeRunning, inFlight, focusTarget,
                 settingsVars, sendPc, finPc, hist>>

\* getUserMedia rejects: the outer catch.
GetUserMediaFail ==
  /\ startPc = "acquiring"
  /\ startPc' = "failed"
  /\ state' = "error"
  /\ StopVisualizer
  /\ UNCHANGED <<backendRef, refs, finalizingRef, focusRefs, recRefs,
                 transcribeInFlightRef, natRefs, queueVars, settingsVars,
                 backend, sendPc, finPc, hist>>

\* getUserMedia resolves: startVisualizer, then the path of the backend read
\* at the start.  Whisper: the recorder is created and started and the delayed
\* focus restore is scheduled.  Native: the chunk listener is registered and
\* whisperStartNative is awaited.  An exception of startVisualizer goes to
\* the outer catch (Error, stopVisualizer) and nothing of the backend starts.
GetUserMediaOk(ctor) ==
  /\ startPc = "acquiring"
  /\ LET v == startVisualizer(visualizerRefs, mediaStreamRef, ctor)
         h == [hist EXCEPT !.streamLost = @ \/ ~v.mediaStreamRef]
     IN IF v.threw
          THEN /\ state' = "error"
               /\ StopVisualizer
               /\ startPc' = "failed"
               /\ hist' = h
               /\ UNCHANGED <<recRefs, focusRefs, natRefs>>
        ELSE IF backend = "whisper"
          THEN LET r == restoreEditorFocusOnce(TRUE) IN
               /\ StartVisualizer(ctor)
               /\ mediaRecorderRef' = TRUE
               /\ recorderState' = "recording"
               /\ audioChunksRef' = <<>>
               /\ editorFocusRestoredRef' = r.restored
               /\ editorFocusRestoreTimerRef' = r.timer
               /\ hist' = [h EXCEPT !.restoreCalls = @ + r.ran]
               /\ startPc' = "recorderStarting"
               /\ UNCHANGED <<state, periodicTimerRef, natRefs>>
          ELSE /\ StartVisualizer(ctor)
               /\ nativeChunkDisposerRef' = TRUE
               /\ nativeRunning' = TRUE
               /\ startPc' = "startingNative"
               /\ hist' = h
               /\ UNCHANGED <<state, recRefs, focusRefs>>
  /\ UNCHANGED <<backendRef, refs, finalizingRef, transcribeInFlightRef,
                 queueVars, settingsVars, backend, sendPc, finPc>>

\* recorder.onstart: Listening, startPeriodicTranscription arms the interval.
RecorderOnStart ==
  /\ startPc = "recorderStarting"
  /\ startPc' = "started"
  /\ state' = "listening"
  /\ periodicTimerRef' = TRUE
  /\ UNCHANGED <<backendRef, refs, finalizingRef, focusRefs, mediaStreamRef, visualizerRefs,
                 mediaRecorderRef, recorderState, audioChunksRef,
                 transcribeInFlightRef, natRefs, queueVars, settingsVars,
                 backend, sendPc, finPc, hist>>

\* recorder.onerror: Error and stopVisualizer unless finalize has begun.  The
\* recorder that raised the error has stopped recording.
RecorderOnError ==
  /\ mediaRecorderRef
  /\ recorderState = "recording"
  /\ recorderState' = "inactive"
  /\ IF ~finalizingRef
       THEN /\ state' = "error"
            /\ StopVisualizer
       ELSE UNCHANGED <<state, mediaStreamRef, visualizerRefs>>
  /\ UNCHANGED <<backendRef, refs, finalizingRef, focusRefs, mediaRecorderRef,
                 audioChunksRef, periodicTimerRef, transcribeInFlightRef, natRefs,
                 queueVars, settingsVars, startPc, backend, sendPc, finPc, hist>>

\* whisperStartNative resolves: the delayed focus restore is scheduled.
NativeStartOk ==
  /\ startPc = "startingNative"
  /\ startPc' = "started"
  /\ LET r == restoreEditorFocusOnce(TRUE) IN
       /\ editorFocusRestoredRef' = r.restored
       /\ editorFocusRestoreTimerRef' = r.timer
       /\ hist' = [hist EXCEPT !.restoreCalls = @ + r.ran]
  /\ UNCHANGED <<state, backendRef, refs, finalizingRef, mediaStreamRef, visualizerRefs, recRefs,
                 transcribeInFlightRef, natRefs, queueVars, settingsVars,
                 backend, sendPc, finPc>>

\* whisperStartNative rejects: Error, stopVisualizer, return.
NativeStartFail ==
  /\ startPc = "startingNative"
  /\ startPc' = "failed"
  /\ state' = "error"
  /\ StopVisualizer
  /\ nativeRunning' = FALSE
  /\ UNCHANGED <<backendRef, refs, finalizingRef, focusRefs, recRefs,
                 transcribeInFlightRef, nativeChunkDisposerRef, queueVars,
                 settingsVars, backend, sendPc, finPc, hist>>

\* The 150 ms timer of restoreEditorFocusOnce fires.
FocusTimerFire ==
  /\ editorFocusRestoreTimerRef
  /\ editorFocusRestoreTimerRef' = FALSE
  /\ hist' = [hist EXCEPT !.restoreCalls = @ + 1]
  /\ UNCHANGED <<state, backendRef, refs, finalizingRef, editorFocusRestoredRef,
                 mediaStreamRef, visualizerRefs, recRefs, transcribeInFlightRef, natRefs,
                 queueVars, settingsVars, startPc, backend, sendPc, finPc>>

\* ------------------------------------------------------ finalizeAndClose
\* Variant that does not await the typing queue.
QueueSettledNoWait(q, calls) == TRUE

\* await liveTypeQueueRef.current resumes once the chain has settled.
QueueSettled(q, calls) == q = <<>> /\ LiveCalls(calls) = {}

\* Variant without the two empty-transcript returns.
ReconcilePastesEmpty(combined, live) ==
  LET baseTranscript == normalizeTranscript(combined)
      liveTyped == normalizeTranscript(live)
  IN IF liveTyped = <<>>
       THEN [do |-> "paste", old |-> <<>>, text |-> normalizeTranscript(baseTranscript)]
     ELSE IF liveTyped # baseTranscript
       THEN [do |-> "replace", old |-> liveTyped, text |-> baseTranscript]
       ELSE [do |-> "close"]

\* The reconciliation of finalizeAndClose, autoPasteAndClose included: what it
\* does next with the two refs it reads.
Reconcile(combined, live) ==
  LET baseTranscript == normalizeTranscript(combined)
      liveTyped == normalizeTranscript(live)
      normalized == normalizeTranscript(baseTranscript)
  IN IF baseTranscript = <<>> THEN [do |-> "close"]
     ELSE IF liveTyped = <<>>
       THEN IF normalized = <<>> THEN [do |-> "close"]
            ELSE [do |-> "paste", old |-> <<>>, text |-> normalized]
     ELSE IF liveTyped # baseTranscript
       THEN [do |-> "replace", old |-> liveTyped, text |-> baseTranscript]
       ELSE [do |-> "close"]

FinalizeCall(d) ==
  [api |-> d.do, old |-> d.old, text |-> d.text, full |-> d.text,
   kind |-> "finalize", id |-> 0, src |-> "finalize"]

\* finalizeAndClose from its await of the typing queue on: where the chain
\* has settled the await resumes in the same task and the reconciliation
\* runs (onClose, or the paste / replace call it awaits); otherwise finalize
\* waits for the chain.  q, calls, combined, live, h: the queue, the calls in
\* flight, the two refs and the observation record at the await.
FinalizeDrain(q, calls, combined, live, h) ==
  IF QueueSettled(q, calls)
    THEN LET d == Reconcile(combined, live)
             hd == [h EXCEPT !.drained = TRUE,
                             !.reconLive = live,
                             !.reconBase = combined]
         IN IF d.do = "close"
              THEN /\ finPc' = "closed"
                   /\ hist' = [hd EXCEPT !.closeCalls = @ + 1]
                   /\ inFlight' = calls
              ELSE /\ finPc' = d.do
                   /\ inFlight' = calls \cup {FinalizeCall(d)}
                   /\ hist' = hd
    ELSE /\ finPc' = "drain"
         /\ inFlight' = calls
         /\ hist' = h

\* finalizeAndClose from the polling loop on transcribeInFlightRef on: it
\* waits 50 ms while a transcription is in flight; otherwise, with audio, it
\* sets the flag and sendTranscription(true) builds the blob and awaits its
\* arrayBuffer; without audio it goes on to the await of the typing queue.
FinalizeAfterRecorder(h) ==
  IF transcribeInFlightRef
    THEN /\ finPc' = "waitInflight"
         /\ hist' = h
         /\ UNCHANGED <<transcribeInFlightRef, sendPc, inFlight>>
  ELSE IF Len(audioChunksRef) > 0
    THEN /\ transcribeInFlightRef' = TRUE
         /\ sendPc' = "finalBuffer"
         /\ finPc' = "finalFlush"
         /\ hist' = h
         /\ UNCHANGED inFlight
    ELSE /\ FinalizeDrain(liveTypeQueue, inFlight, combinedTranscriptRef,
                          liveTypedTextRef, h)
         /\ UNCHANGED <<transcribeInFlightRef, sendPc>>

\* The body of finalizeAndClose behind its guard, as far as it runs in the
\* task of its caller.  h is the observation record of the caller, procAlive
\* whether the native process is alive when the call is made.
FinalizeBody(h, procAlive) ==
  LET hf == [h EXCEPT !.finalizeRuns = @ + 1,
                      !.restoreCancelled = @ \/ editorFocusRestoreTimerRef,
                      !.drained = FALSE]
  IN
  /\ finalizingRef' = TRUE
  /\ editorFocusRestoreTimerRef' = FALSE
  /\ state' = "processing"
  /\ IF backendRef = "whisper"
       THEN /\ periodicTimerRef' = FALSE
            /\ nativeRunning' = procAlive
            /\ UNCHANGED nativeChunkDisposerRef
            /\ IF mediaRecorderRef /\ recorderState # "inactive"
                 THEN \* requestData(); await 200 ms
                      /\ finPc' = "flushWait"
                      /\ hist' = hf
                      /\ UNCHANGED <<mediaRecorderRef, mediaStreamRef,
                                     visualizerRefs, transcribeInFlightRef,
                                     sendPc, inFlight>>
                 ELSE /\ mediaRecorderRef' = FALSE
                      /\ StopVisualizer
                      /\ FinalizeAfterRecorder(hf)
       ELSE /\ nativeChunkDisposerRef' = FALSE
            /\ nativeRunning' = FALSE
            /\ StopVisualizer
            /\ FinalizeDrain(liveTypeQueue, inFlight, combinedTranscriptRef,
                             liveTypedTextRef, hf)
            /\ UNCHANGED <<periodicTimerRef, mediaRecorderRef,
                           transcribeInFlightRef, sendPc>>

finalizeAndClose(h, procAlive) ==
  IF finalizingRef
    THEN /\ hist' = h
         /\ nativeRunning' = procAlive
         /\ UNCHANGED <<finalizingRef, editorFocusRestoreTimerRef, state,
                        periodicTimerRef, nativeChunkDisposerRef,
                        mediaRecorderRef, mediaStreamRef, visualizerRefs, finPc,
                        transcribeInFlightRef, sendPc, inFlight>>
    ELSE FinalizeBody(h, procAlive)

\* Escape keydown or onWhisperStopAndClose.
StopTrigger ==
  /\ hist.stopTriggers < MaxStops
  /\ ~hist.unmounted
  /\ finalizeAndClose([hist EXCEPT !.stopTriggers = @ + 1], nativeRunning)
  /\ UNCHANGED <<backendRef, refs, editorFocusRestoredRef, recorderState,
                 audioChunksRef, liveTypeQueue, focusTarget, settingsVars,
                 startPc, backend>>

\* ------------------------------------------------- native chunk listener
NativeListening == nativeChunkDisposerRef /\ nativeRunning

\* data.ready
NativeReady ==
  /\ NativeListening
  /\ ~finalizingRef
  /\ state # "listening"
  /\ state' = "listening"
  /\ UNCHANGED <<backendRef, refs, finalizingRef, focusRefs, mediaStreamRef, visualizerRefs, recRefs,
                 transcribeInFlightRef, natRefs, queueVars, settingsVars,
                 startPc, backend, sendPc, finPc, hist>>

\* data.error
NativeError ==
  /\ NativeListening
  /\ ~finalizingRef
  /\ state # "error"
  /\ state' = "error"
  /\ StopVisualizer
  /\ UNCHANGED <<backendRef, refs, finalizingRef, focusRefs, recRefs,
                 transcribeInFlightRef, natRefs, queueVars, settingsVars,
                 startPc, backend, sendPc, finPc, hist>>

\* Variant of the 'ended' branch that only returns.
\* Variant that finalizes on every ended event, transcript or not.
NativeEndedAlwaysFinalizes ==
  /\ NativeListening
  /\ IF ~finalizingRef
       THEN finalizeAndClose(hist, FALSE)
       ELSE /\ nativeRunning' = FALSE
            /\ UNCHANGED <<finalizingRef, editorFocusRestoreTimerRef, state,
                           periodicTimerRef, nativeChunkDisposerRef,
                           mediaRecorderRef, mediaStreamRef, visualizerRefs,
                           finPc, hist,
                           transcribeInFlightRef, sendPc, inFlight>>
  /\ UNCHANGED <<backendRef, refs, editorFocusRestoredRef, recorderState,
                 audioChunksRef, liveTypeQueue, focusTarget, settingsVars,
                 startPc, backend>>

NativeEndedIgnored ==
  /\ NativeListening
  /\ nativeRunning' = FALSE
  /\ UNCHANGED <<finalizingRef, editorFocusRestoreTimerRef, state,
                 periodicTimerRef, nativeChunkDisposerRef,
                 mediaRecorderRef, mediaStreamRef, visualizerRefs, finPc, hist,
                 transcribeInFlightRef, sendPc, inFlight>>
  /\ UNCHANGED <<backendRef, refs, editorFocusRestoredRef, recorderState,
                 audioChunksRef, liveTypeQueue, focusTarget, settingsVars,
                 startPc, backend>>

\* data.ended: the recognizer process exited by itself.
NativeEnded ==
  /\ NativeListening
  /\ IF ~finalizingRef /\ combinedTranscriptRef # <<>>
       THEN finalizeAndClose(hist, FALSE)
       ELSE /\ nativeRunning' = FALSE
            /\ UNCHANGED <<finalizingRef, editorFocusRestoreTimerRef, state,
                           periodicTimerRef, nativeChunkDisposerRef,
                           mediaRecorderRef, mediaStreamRef, visualizerRefs, finPc, hist,
                           transcribeInFlightRef, sendPc, inFlight>>
  /\ UNCHANGED <<backendRef, refs, editorFocusRestoredRef, recorderState,
                 audioChunksRef, liveTypeQueue, focusTarget, settingsVars,
                 startPc, backend>>

\* Observation of one transcript update folded into combinedTranscriptRef.
NoteUpdate(h, text, started, ran) ==
  [h EXCEPT !.nEvents = @ + 1,
            !.noShrink = @ /\ Len(combinedTranscriptRef) <= Len(text),
            !.nUpdates = @ + 1,
            !.restoreCalls = @ + ran,
            !.monotone = @ /\ IsPrefix(combinedTranscriptRef, text),
            !.maxUpdateLen = Max(@, Len(text)),
            !.begun = @ \o StartedIds(started)]

\* Variant that appends the utterance without the separating space.
fullTextNoSpace(committed, normalized) == committed \o normalized

\* fullText of the transcript branch: the committed text of the earlier
\* utterances, a space, and the text of the current one.
fullText(committed, normalized) ==
  IF committed # <<>> THEN committed \o <<" ">> \o normalized ELSE normalized

\* data.transcript: fullText = committed + ' ' + normalized, then
\* handleTranscriptUpdate(fullText), then committedTextRef on a final.
OnNativeTranscript(raw, isFinal) ==
  /\ NativeListening
  /\ LET normalized == normalizeTranscript(raw)
         full == fullText(committedTextRef, normalized)
         r == restoreEditorFocusOnce(FALSE)
         q == ChainOp(liveTypeQueue, inFlight,
                      AppendOp(full, hist.nUpdates + 1), typedCountRef)
     IN IF finalizingRef \/ normalized = <<>>
          THEN /\ hist' = [hist EXCEPT !.nEvents = @ + 1]
               /\ UNCHANGED <<combinedTranscriptRef, committedTextRef, focusRefs,
                              liveTypeQueue, inFlight>>
          ELSE /\ editorFocusRestoredRef' = r.restored
               /\ editorFocusRestoreTimerRef' = r.timer
               /\ combinedTranscriptRef' = full
               /\ liveTypeQueue' = q.queue
               /\ inFlight' = inFlight \cup q.started
               /\ committedTextRef' = IF isFinal THEN full ELSE committedTextRef
               /\ hist' = NoteUpdate(hist, full, q.started, r.ran)
  /\ UNCHANGED <<state, backendRef, liveTypedTextRef, typedCountRef, finalizingRef,
                 mediaStreamRef, visualizerRefs, recRefs, transcribeInFlightRef, natRefs,
                 focusTarget, settingsVars, startPc, backend, sendPc, finPc>>

\* A transcript event of the recognizer, drawn from RawTranscripts.
NativeTranscript(raw, isFinal) ==
  /\ hist.nEvents < MaxEvents
  /\ OnNativeTranscript(raw, isFinal)

\* ----------------------------------------------------- queued live typing
\* typeTextLive / replaceLiveText of the running closure returns ok; the
\* closure records the result and the next chained closures run.  A finalize
\* that awaits the chain resumes in the same task once the chain has settled.
CompleteLiveCall(c, ok) ==
  /\ c \in LiveCalls(inFlight)
  /\ LET res == LiveCallResult(c, ok, typedCountRef, liveTypedTextRef)
         q == PumpQueue(liveTypeQueue, res.typed)
         calls == (inFlight \ {c}) \cup q.started
         h == [hist EXCEPT
                 !.anyFail = @ \/ ~ok,
                 !.typedDeltas = IF ok /\ c.api = "type" THEN @ \o c.text ELSE @,
                 !.begun = @ \o StartedIds(q.started),
                 !.lastDone = [id |-> c.id, text |-> c.full, ok |-> ok]]
     IN /\ typedCountRef' = res.typed
        /\ liveTypedTextRef' = res.live
        /\ focusTarget' = ApplyToFocus(focusTarget, c, ok)
        /\ liveTypeQueue' = q.queue
        /\ IF finPc = "drain"
             THEN FinalizeDrain(q.queue, calls, combinedTranscriptRef, res.live, h)
             ELSE /\ inFlight' = calls
                  /\ hist' = h
                  /\ UNCHANGED finPc
  /\ UNCHANGED <<state, backendRef, combinedTranscriptRef, committedTextRef,
                 finalizingRef, focusRefs, mediaStreamRef, visualizerRefs, recRefs,
                 transcribeInFlightRef, natRefs, settingsVars, startPc,
                 backend, sendPc>>

\* ------------------------------------------------------- whisper backend
\* recorder.ondataavailable with a non-empty chunk: the handler appends
\* whatever the recorder delivers, also the chunk that follows stop() or an
\* error.
DataAvailable(size) ==
  /\ recorderState # "none"
  /\ Len(audioChunksRef) < MaxChunks
  /\ audioChunksRef' = Append(audioChunksRef, size)
  /\ UNCHANGED <<state, backendRef, refs, finalizingRef, focusRefs, mediaStreamRef, visualizerRefs,
                 mediaRecorderRef, recorderState, periodicTimerRef,
                 transcribeInFlightRef, natRefs, queueVars, settingsVars,
                 startPc, backend, sendPc, finPc, hist>>

\* Variant of the interval guard without the in-flight test.
TickGuardNoSlot(inflight, finalizing) == ~finalizing

\* The first test of the interval callback.
TickGuard(inflight, finalizing) == ~(inflight \/ finalizing)

\* The interval callback of startPeriodicTranscription sets the flag and
\* sendTranscription(false) builds the blob and reaches the await of its
\* arrayBuffer.  (A tick that returns early, or whose blob is under 1000
\* bytes, changes nothing.)
OnPeriodicTick ==
  /\ periodicTimerRef
  /\ TickGuard(transcribeInFlightRef, finalizingRef)
  /\ Len(audioChunksRef) # 0
  /\ SumSeq(audioChunksRef) >= MinBlobBytes
  /\ transcribeInFlightRef' = TRUE
  /\ sendPc' = "tickBuffer"
  /\ UNCHANGED <<state, backendRef, refs, finalizingRef, focusRefs, mediaStreamRef,
                 visualizerRefs, recRefs, natRefs, queueVars, settingsVars,
                 startPc, backend, finPc, hist>>

\* An interval tick while fewer than MaxEvents results have been handled.
PeriodicTick ==
  /\ hist.nEvents < MaxEvents
  /\ OnPeriodicTick

\* audioBlob.arrayBuffer() resolves: sendTranscription calls whisperTranscribe
\* and awaits it.
BufferReady ==
  /\ sendPc \in {"tickBuffer", "finalBuffer"}
  /\ sendPc' = IF sendPc = "tickBuffer" THEN "tick" ELSE "final"
  /\ hist' = [hist EXCEPT !.outstanding = @ + 1]
  /\ UNCHANGED <<state, backendRef, refs, finalizingRef, focusRefs, mediaStreamRef,
                 visualizerRefs, recRefs, transcribeInFlightRef, natRefs,
                 queueVars, settingsVars, startPc, backend, finPc>>

\* whisperTranscribe resolves with raw text: the rest of sendTranscription and
\* the finally of its caller (the interval callback, or finalizeAndClose for the
\* final flush, which goes on to await the typing queue).
TranscribeResolve(raw) ==
  /\ sendPc \in {"tick", "final"}
  /\ LET isFinal == sendPc = "final"
         normalized == normalizeTranscript(raw)
         previous == liveTypedTextRef
         r == restoreEditorFocusOnce(FALSE)
         q == ChainOp(liveTypeQueue, inFlight,
                      FullOp(previous, normalized, hist.nUpdates + 1), typedCountRef)
         \* the refs, the queue and the observations sendTranscription leaves
         u == IF raw = <<>> \/ (finalizingRef /\ ~isFinal) \/ normalized = <<>>
                THEN [restored |-> editorFocusRestoredRef,
                      timer |-> editorFocusRestoreTimerRef,
                      combined |-> combinedTranscriptRef,
                      queue |-> liveTypeQueue, calls |-> inFlight,
                      hist |-> [hist EXCEPT !.nEvents = @ + 1,
                                            !.outstanding = @ - 1]]
              ELSE IF previous = normalized
                THEN [restored |-> r.restored, timer |-> r.timer,
                      combined |-> normalized,
                      queue |-> liveTypeQueue, calls |-> inFlight,
                      hist |-> [NoteUpdate(hist, normalized, {}, r.ran)
                                  EXCEPT !.outstanding = @ - 1]]
                ELSE [restored |-> r.restored, timer |-> r.timer,
                      combined |-> normalized,
                      queue |-> q.queue, calls |-> inFlight \cup q.started,
                      hist |-> [NoteUpdate(hist, normalized, q.started, r.ran)
                                  EXCEPT !.outstanding = @ - 1]]
     IN /\ editorFocusRestoredRef' = u.restored
        /\ editorFocusRestoreTimerRef' = u.timer
        /\ combinedTranscriptRef' = u.combined
        /\ liveTypeQueue' = u.queue
        /\ IF isFinal
             THEN FinalizeDrain(u.queue, u.calls, u.combined, liveTypedTextRef,
                                u.hist)
             ELSE /\ inFlight' = u.calls
                  /\ hist' = u.hist
                  /\ UNCHANGED finPc
  /\ transcribeInFlightRef' = FALSE
  /\ sendPc' = "none"
  /\ UNCHANGED <<state, backendRef, liveTypedTextRef, committedTextRef,
                 typedCountRef, finalizingRef, mediaStreamRef, visualizerRefs, recRefs, natRefs,
                 focusTarget, settingsVars, startPc, backend>>

\* stopRecording: the refs it leaves behind.
stopRecording(timer, recorder, recState) ==
  [periodicTimer |-> FALSE,
   recorderState |-> IF recorder /\ recState # "inactive" THEN "inactive" ELSE recState,
   mediaRecorder |-> FALSE]

\* Variant of the catch that ends the session on every error.
sendTranscriptionCatchAlwaysFatal(fatal, st, timer, recorder, recState, stream) ==
  LET s == stopRecording(timer, recorder, recState)
  IN [state |-> "error", periodicTimer |-> s.periodicTimer,
      recorderState |-> s.recorderState, mediaRecorder |-> s.mediaRecorder,
      mediaStream |-> FALSE]

\* The catch of sendTranscription.  fatal: the message carries 'API key',
\* '401' or '403' (setState('error'), stopRecording, stopVisualizer); any
\* other error is only logged.
sendTranscriptionCatch(fatal, st, timer, recorder, recState, stream) ==
  LET s == stopRecording(timer, recorder, recState)
  IN IF fatal
       THEN [state |-> "error", periodicTimer |-> s.periodicTimer,
             recorderState |-> s.recorderState, mediaRecorder |-> s.mediaRecorder,
             mediaStream |-> FALSE]
       ELSE [state |-> st, periodicTimer |-> timer, recorderState |-> recState,
             mediaRecorder |-> recorder, mediaStream |-> stream]

\* whisperTranscribe rejects: the catch of sendTranscription, then the
\* finally of its caller.
TranscribeReject(fatal) ==
  /\ sendPc \in {"tick", "final"}
  /\ LET c == sendTranscriptionCatch(fatal, state, periodicTimerRef,
                                     mediaRecorderRef, recorderState,
                                     mediaStreamRef)
     IN /\ state' = c.state
        /\ periodicTimerRef' = c.periodicTimer
        /\ recorderState' = c.recorderState
        /\ mediaRecorderRef' = c.mediaRecorder
        /\ IF c.mediaStream = mediaStreamRef
             THEN UNCHANGED <<mediaStreamRef, visualizerRefs>>
             ELSE StopVisualizer
  /\ LET h == [hist EXCEPT !.nEvents = @ + 1, !.outstanding = @ - 1,
                            !.fatal = @ \/ fatal]
     IN IF sendPc = "final"
          THEN FinalizeDrain(liveTypeQueue, inFlight, combinedTranscriptRef,
                             liveTypedTextRef, h)
          ELSE /\ hist' = h
               /\ UNCHANGED <<finPc, inFlight>>
  /\ transcribeInFlightRef' = FALSE
  /\ sendPc' = "none"
  /\ UNCHANGED <<backendRef, refs, finalizingRef, focusRefs, audioChunksRef,
                 natRefs, liveTypeQueue, focusTarget, settingsVars, startPc,
                 backend>>

\* ------------------------------------------- finalizeAndClose, continued
\* After the 200 ms wait: recorder.stop(), stopVisualizer, and on in the
\* same task.
FinalizeAfterFlushWait ==
  /\ finPc = "flushWait"
  /\ recorderState' = IF mediaRecorderRef THEN "inactive" ELSE recorderState
  /\ mediaRecorderRef' = FALSE
  /\ StopVisualizer
  /\ FinalizeAfterRecorder(hist)
  /\ UNCHANGED <<state, backendRef, refs, finalizingRef, focusRefs, audioChunksRef,
                 periodicTimerRef, natRefs, liveTypeQueue, focusTarget,
                 settingsVars, startPc, backend>>

\* A 50 ms timer of the polling loop fires and finds transcribeInFlightRef
\* false: the loop ends and finalize goes on in the same task.  (A timer that
\* finds the flag set arms the next one and changes nothing.)
FinalizeFinalFlush ==
  /\ finPc = "waitInflight"
  /\ ~transcribeInFlightRef
  /\ FinalizeAfterRecorder(hist)
  /\ UNCHANGED <<state, backendRef, refs, finalizingRef, focusRefs, mediaStreamRef,
                 visualizerRefs, recRefs, natRefs, liveTypeQueue, focusTarget,
                 settingsVars, startPc, backend>>

\* Variant that returns without onClose when the call reported failure.
AfterFinalizeCallClosesOnSuccess(api, ok) ==
  IF ok THEN "closed" ELSE IF api = "paste" THEN "clipboard" ELSE api

\* Where finalize goes when its pasteText / replaceLiveText call has
\* returned: clipboardWrite after a failed paste, onClose otherwise.
AfterFinalizeCall(api, ok) ==
  IF api = "paste" /\ ~ok THEN "clipboard" ELSE "closed"

\* pasteText / replaceLiveText of finalize returns ok.
CompleteFinalizeCall(c, ok) ==
  /\ c \in inFlight
  /\ c.src = "finalize"
  /\ inFlight' = inFlight \ {c}
  /\ focusTarget' = ApplyToFocus(focusTarget, c, ok)
  /\ LET h == [hist EXCEPT
                 !.anyFail = @ \/ ~ok,
                 !.finLog = Append(@, [api |-> c.api, text |-> c.text, ok |-> ok])]
     IN /\ finPc' = AfterFinalizeCall(c.api, ok)
        /\ hist' = IF AfterFinalizeCall(c.api, ok) = "closed"
                     THEN [h EXCEPT !.closeCalls = @ + 1]
                     ELSE h
  /\ UNCHANGED <<state, backendRef, refs, finalizingRef, focusRefs, mediaStreamRef, visualizerRefs,
                 recRefs, transcribeInFlightRef, natRefs, liveTypeQueue,
                 settingsVars, startPc, backend, sendPc>>

\* clipboardWrite returns; onClose.
ClipboardDone ==
  /\ finPc = "clipboard"
  /\ finPc' = "closed"
  /\ hist' = [hist EXCEPT
       !.finLog = Append(@, [api |-> "clipboard",
                             text |-> (@[Len(@)]).text, ok |-> TRUE]),
       !.closeCalls = @ + 1]
  /\ UNCHANGED <<state, backendRef, refs, finalizingRef, focusRefs, mediaStreamRef, visualizerRefs,
                 recRefs, transcribeInFlightRef, natRefs, queueVars,
                 settingsVars, startPc, backend, sendPc>>

\* ---------------------------------------------------------------- unmount
\* The parent removes the component, once, at any moment.  The cleanup of
\* the auto-start effect clears the 80 ms timer; the cleanup of the unmount
\* effect clears the restore timer and the interval, stops a recorder that is
\* not inactive, drops the recorder, disposes the native listener,
\* whisperStopNative, stopVisualizer.
Unmount ==
  /\ ~hist.unmounted
  /\ hist' = [hist EXCEPT !.unmounted = TRUE]
  /\ startPc' = IF startPc = "mounted" THEN "cancelled" ELSE startPc
  /\ editorFocusRestoreTimerRef' = FALSE
  /\ periodicTimerRef' = FALSE
  /\ recorderState' = IF mediaRecorderRef /\ recorderState # "inactive"
                        THEN "inactive" ELSE recorderState
  /\ mediaRecorderRef' = FALSE
  /\ nativeChunkDisposerRef' = FALSE
  /\ nativeRunning' = FALSE
  /\ StopVisualizer
  /\ UNCHANGED <<state, backendRef, refs, finalizingRef, editorFocusRestoredRef,
                 audioChunksRef, transcribeInFlightRef, queueVars,
                 settingsVars, backend, sendPc, finPc>>

\* ------------------------------------------------------------------- Next
Next ==
  \/ \E b \in Backends, lang \in Languages : SettingsLoaded(b, lang)
  \/ Render
  \/ StartListening
  \/ Unmount
  \/ GetUserMediaFail
  \/ \E ctor \in AudioContextCtors : GetUserMediaOk(ctor)
  \/ RecorderOnStart
  \/ RecorderOnError
  \/ NativeStartOk
  \/ NativeStartFail
  \/ FocusTimerFire
  \/ StopTrigger
  \/ NativeReady
  \/ NativeError
  \/ NativeEnded
  \/ \E raw \in RawTranscripts, isFinal \in BOOLEAN : NativeTranscript(raw, isFinal)
  \/ \E c \in inFlight, ok \in BOOLEAN : CompleteLiveCall(c, ok)
  \/ \E size \in ChunkSizes : DataAvailable(size)
  \/ PeriodicTick
  \/ BufferReady
  \/ \E raw \in RawTranscripts : TranscribeResolve(raw)
  \/ \E fatal \in BOOLEAN : TranscribeReject(fatal)
  \/ FinalizeAfterFlushWait
  \/ FinalizeFinalFlush
  \/ \E c \in inFlight, ok \in BOOLEAN : CompleteFinalizeCall(c, ok)
  \/ ClipboardDone

Spec == Init /\ [][Next]_vars

\* ================================================================= claims
Closed == hist.closeCalls > 0

\* The microphone is open: a stream of getUserMedia whose tracks have not
\* been stopped, held in mediaStreamRef or by no ref at all.
MicrophoneOpen == mediaStreamRef \/ hist.streamLost
Prefix(s, n) == SubSeq(s, 1, IF n <= Len(s) THEN n ELSE Len(s))
StrictlyIncreasing(ids) == \A i, j \in DOMAIN ids : i < j => ids[i] < ids[j]

\* C1 (as claimed): when the session closes after a run in which every
\* type/replace/paste call reported success, the text in the focus target
\* equals the normalized final combinedTranscript.  Stated at the onClose of
\* the finalize run (no startListening since), for sessions whose final
\* combinedTranscript is already in normal form and whose backend was not
\* switched by a late settings load.
C1_ExactTextTyped ==
  ( /\ finPc = "closed" /\ finalizingRef
    /\ ~hist.anyFail
    /\ backend = backendRef
    /\ normalizeTranscript(combinedTranscriptRef) = combinedTranscriptRef )
  => focusTarget = normalizeTranscript(combinedTranscriptRef)

\* C2 (as claimed): under the native backend the deltas delivered by
\* typeTextLive, concatenated, are at every moment the prefix of length
\* typedCountRef of the current combinedTranscript.
C2_DeliveredIsPrefix ==
  backend = "native" =>
    /\ typedCountRef <= Len(combinedTranscriptRef)
    /\ hist.typedDeltas = Prefix(combinedTranscriptRef, typedCountRef)

\* C2 (amended): under the native backend the delivered deltas, concatenated,
\* have length typedCountRef at every moment and are only ever extended; they
\* are the prefix of length typedCountRef of the current combinedTranscript as
\* long as every transcript update has extended the one before it.
C2_AppendOnly ==
  /\ [](backend = "native" =>
          /\ Len(hist.typedDeltas) = typedCountRef
          /\ (hist.monotone =>
                hist.typedDeltas = Prefix(combinedTranscriptRef, typedCountRef)))
  /\ [][IsPrefix(hist.typedDeltas, hist.typedDeltas')]_vars

C2_Witness ==
  /\ backend = "native"
  /\ hist.monotone
  /\ hist.nUpdates >= 2
  /\ hist.typedDeltas # <<>>
  /\ typedCountRef < Len(combinedTranscriptRef)
  /\ hist.anyFail

\* C3 (as claimed): typedCountRef <= length of combinedTranscriptRef in every
\* reachable state.
C3_TypedWithinTranscript == typedCountRef <= Len(combinedTranscriptRef)

\* C3 (amended): typedCountRef never exceeds the length of the longest
\* transcript update received so far, and it is at most the length of
\* combinedTranscriptRef in every state of a session in which no update was
\* shorter than the one before it, also while earlier edits are still queued.
C3_TypedWithinLongest ==
  /\ typedCountRef <= hist.maxUpdateLen
  /\ (hist.noShrink => typedCountRef <= Len(combinedTranscriptRef))

C3_Witness ==
  /\ typedCountRef > 0
  /\ hist.noShrink
  /\ hist.nUpdates >= 2
  /\ LiveCalls(inFlight) # {}
  /\ typedCountRef < Len(combinedTranscriptRef)

\* C4 (as claimed): the body of finalizeAndClose after the finalizing guard
\* runs at most once in the life of the component, however many stop
\* triggers and 'ended' events arrive and however they interleave.
C4_FinalizeAtMostOnce == hist.finalizeRuns <= 1

\* C5 (as claimed): in a session that received two stop triggers and has
\* closed, with nothing of its start still pending, exactly one finalize
\* sequence ran and restoreLastFrontmostApp was invoked exactly once.
C5_ExactlyOneRestore ==
  ( /\ Closed
    /\ hist.stopTriggers >= 2
    /\ startPc = "started"
    /\ ~editorFocusRestoreTimerRef )
  => (hist.finalizeRuns = 1 /\ hist.restoreCalls = 1)

\* C6: the injection calls of the typing queue begin in the order in which
\* their transcript updates arrived, and the call of an update begins only
\* after the call of every earlier update has returned: at most one queued call
\* is in flight, it is the last one begun, and every edit still waiting belongs
\* to a later update.
C6_EditsInArrivalOrder ==
  /\ Cardinality(LiveCalls(inFlight)) <= 1
  /\ StrictlyIncreasing(hist.begun)
  /\ StrictlyIncreasing([i \in DOMAIN liveTypeQueue |-> liveTypeQueue[i].id])
  /\ (liveTypeQueue # <<>> => LiveCalls(inFlight) # {})
  /\ \A c \in LiveCalls(inFlight) :
       /\ hist.begun # <<>>
       /\ c.id = hist.begun[Len(hist.begun)]
       /\ \A i \in DOMAIN liveTypeQueue : liveTypeQueue[i].id > c.id

C6_Witness ==
  /\ hist.nUpdates = 2
  /\ Len(hist.begun) = 1
  /\ \E c \in LiveCalls(inFlight) : c.id = hist.begun[1]
  /\ Len(liveTypeQueue) = 1
  /\ liveTypeQueue[1].id > hist.begun[1]

\* C7 (as claimed): at most one text-injection call (typeTextLive,
\* replaceLiveText, pasteText) is in flight at any time, and once finalize
\* has passed its await of the typing queue no queued edit is waiting or in
\* flight.
C7_OneInjectionAtATime ==
  /\ Cardinality(inFlight) <= 1
  /\ (hist.drained => (liveTypeQueue = <<>> /\ LiveCalls(inFlight) = {}))

\* C8: whisper backend: once the edit of the latest transcript TN has reported
\* success, liveTypedTextRef equals TN (the current combinedTranscriptRef),
\* whatever the earlier transcripts were and whether or not earlier edits failed.
C8_FullReplaceConvergence ==
  ( /\ backend = "whisper"
    /\ hist.nUpdates > 0
    /\ hist.lastDone.ok
    /\ hist.lastDone.id = hist.nUpdates )
  => ( /\ liveTypedTextRef = hist.lastDone.text
       /\ liveTypedTextRef = combinedTranscriptRef )

C8_Witness ==
  /\ backend = "whisper"
  /\ hist.nUpdates = 2
  /\ hist.lastDone.ok
  /\ hist.lastDone.id = 2
  /\ hist.anyFail
  /\ focusTarget = combinedTranscriptRef

\* C9 (as claimed): if liveTypedText is empty and combinedTranscript is
\* non-empty when finalize reconciles, then by the time the session closes
\* exactly one pasteText call was made, with the canonical transcript, finalize
\* made no replaceLiveText call, and clipboardWrite was called exactly when
\* that paste reported failure.
C9_FallbackPaste ==
  (Closed /\ hist.reconLive = <<>> /\ hist.reconBase # <<>>) =>
    LET log == hist.finLog
        pastes == {i \in DOMAIN log : log[i].api = "paste"}
    IN /\ Cardinality(pastes) = 1
       /\ \A i \in pastes : log[i].text = normalizeTranscript(hist.reconBase)
       /\ \A i \in DOMAIN log : log[i].api # "replace"
       /\ (\E i \in DOMAIN log : log[i].api = "clipboard")
            <=> (\E i \in pastes : ~log[i].ok)

\* C10: if combinedTranscript is empty when finalize reaches its
\* reconciliation, finalize calls onClose there and then, without any
\* pasteText, clipboardWrite or replaceLiveText call of its own.
C10_QuietSession ==
  (hist.drained /\ hist.reconBase = <<>>) =>
    /\ finPc = "closed"
    /\ Closed
    /\ hist.finLog = <<>>
    /\ \A c \in inFlight : c.src # "finalize"

C10_Witness ==
  /\ Closed
  /\ hist.drained
  /\ hist.reconBase = <<>>
  /\ startPc = "started"
  /\ hist.nEvents > 0

\* C11 (as claimed): under the whisper backend finalize does not wait without
\* bound on a transcription that is in flight when the stop trigger arrives:
\* while finalizeAndClose polls transcribeInFlightRef for a periodic
\* submission that has not returned, its next step (the final flush and then
\* the drain and close) can be taken without that submission returning.
C11_FinalizeNotBlockedByInFlight ==
  (finPc = "waitInflight" /\ sendPc = "tick") => ENABLED FinalizeFinalFlush

\* A step of a backend or timer callback other than the final flush of
\* finalizeAndClose: a native chunk event, an interval tick, or the return
\* of a periodic (non-final) submission.
C12_CallbackStep ==
  \/ NativeReady
  \/ NativeError
  \/ NativeEnded
  \/ \E raw \in RawTranscripts, isFinal \in BOOLEAN : NativeTranscript(raw, isFinal)
  \/ PeriodicTick
  \/ sendPc = "tick" /\ \E raw \in RawTranscripts : TranscribeResolve(raw)
  \/ sendPc = "tick" /\ \E fatal \in BOOLEAN : TranscribeReject(fatal)

\* C12 (as claimed): once finalizingRef is set, a native chunk event, an
\* interval tick or a non-final submission that resolves or fails changes
\* neither the lifecycle state nor combinedTranscriptRef and enqueues no
\* edit; only the final flush may still apply its result.
C12_CallbacksDroppedAfterFinalize ==
  [][ (finalizingRef /\ C12_CallbackStep) =>
        /\ state' = state
        /\ combinedTranscriptRef' = combinedTranscriptRef
        /\ liveTypeQueue' = liveTypeQueue
        /\ inFlight' = inFlight ]_vars

\* C13: under the whisper backend at most one whisperTranscribe call is
\* outstanding at any time, across interval ticks and the final flush of
\* finalizeAndClose; a call is submitted only when none is in flight, so a
\* tick that fires during a call submits nothing.
C13_SingleTranscriptionSlot ==
  /\ [](hist.outstanding <= 1)
  /\ [](hist.outstanding = 1 <=> sendPc \in {"tick", "final"})
  /\ [](transcribeInFlightRef <=> sendPc # "none")
  /\ [][hist.outstanding' > hist.outstanding =>
          transcribeInFlightRef /\ hist.outstanding = 0]_vars
  /\ [][(sendPc' # sendPc /\ sendPc' \in {"tickBuffer", "finalBuffer"}) =>
          ~transcribeInFlightRef /\ hist.outstanding = 0]_vars

\* A periodic submission is outstanding while the interval is still armed
\* with enough audio buffered for another submission.
C13_Witness ==
  /\ hist.outstanding = 1
  /\ sendPc = "tick"
  /\ Len(audioChunksRef) > 0
  /\ SumSeq(audioChunksRef) >= MinBlobBytes
  /\ periodicTimerRef
  /\ ~finalizingRef

\* The edit a transcript update t must issue from the refs as they stand:
\* the suffix from typedCountRef (append-only) or a replacement of
\* liveTypedTextRef (full-replace); none when there is no difference.
C14_RetryEdits(t) ==
  IF backend = "native"
    THEN IF Len(t) > typedCountRef
           THEN {[api |-> "type", old |-> <<>>, text |-> Slice(t, typedCountRef)]}
           ELSE {}
  ELSE IF t = liveTypedTextRef THEN {}
  ELSE IF liveTypedTextRef = <<>>
    THEN {[api |-> "type", old |-> <<>>, text |-> t]}
    ELSE {[api |-> "replace", old |-> liveTypedTextRef, text |-> t]}

\* C14: a typeTextLive / replaceLiveText call of the typing queue that
\* reports failure changes none of typedCountRef, liveTypedTextRef and
\* combinedTranscriptRef; and the transcript update that follows a failed
\* call (the queue having settled) issues the edit that covers the whole
\* difference from the unchanged refs.
C14_FailureLeavesStateForRetry ==
  [][ /\ (\E c \in LiveCalls(inFlight) : CompleteLiveCall(c, FALSE)) =>
           /\ typedCountRef' = typedCountRef
           /\ liveTypedTextRef' = liveTypedTextRef
           /\ combinedTranscriptRef' = combinedTranscriptRef
      /\ ( /\ hist.lastDone.id # 0
           /\ ~hist.lastDone.ok
           /\ QueueSettled(liveTypeQueue, inFlight)
           /\ hist.nUpdates' = hist.nUpdates + 1 ) =>
           { [api |-> d.api, old |-> d.old, text |-> d.text] :
               d \in LiveCalls(inFlight') } = C14_RetryEdits(combinedTranscriptRef')
    ]_vars

\* A call failed, the next update arrived, and its edit carries the text of
\* the failed edit together with the new text.
C14_Witness ==
  /\ hist.lastDone.id # 0
  /\ ~hist.lastDone.ok
  /\ hist.lastDone.text # <<>>
  /\ \E d \in LiveCalls(inFlight) :
       /\ d.id > hist.lastDone.id
       /\ d.text = combinedTranscriptRef
       /\ Len(d.text) > Len(hist.lastDone.text)
       /\ IsPrefix(hist.lastDone.text, d.text)

\* ============================================================ scenario A
\* The recognizer delivers a fixed script of transcript events: two
\* utterances with a recognizer restart between them.
ScenarioA ==
  << [text |-> <<"h","e","l">>, isFinal |-> FALSE],
     [text |-> <<"h","e","l","l","o">>, isFinal |-> FALSE],
     [text |-> <<"h","e","l","l","o">>, isFinal |-> TRUE],
     [text |-> <<"w","o","r","l","d">>, isFinal |-> FALSE],
     [text |-> <<"h","e","l","l","o"," ","w","o","r","l","d">>, isFinal |-> TRUE] >>

\* The next event of the script reaches the chunk listener.
ScenarioAEvent ==
  /\ hist.nEvents < Len(ScenarioA)
  /\ OnNativeTranscript(ScenarioA[hist.nEvents + 1].text,
                        ScenarioA[hist.nEvents + 1].isFinal)

\* A native session that receives the script and is stopped by Escape.
ScenarioANext ==
  \/ SettingsLoaded("native", DefaultLanguage)
  \/ StartListening
  \/ GetUserMediaOk("ok")
  \/ NativeStartOk
  \/ FocusTimerFire
  \/ NativeReady
  \/ ScenarioAEvent
  \/ \E c \in inFlight, ok \in BOOLEAN : CompleteLiveCall(c, ok)
  \/ StopTrigger
  \/ \E c \in inFlight, ok \in BOOLEAN : CompleteFinalizeCall(c, ok)
  \/ ClipboardDone

ScenarioASpec == Init /\ [][ScenarioANext]_vars

\* C15 (as claimed): in scenario A with every typing call succeeding, the
\* first two deltas typed are "hel" and "lo", every edit is a typeTextLive
\* (no delete), after the restart the focus target holds "hello world"
\* (nothing inserted twice), and when the session has closed after the five
\* events the focus target holds "hello world".
C15_ScenarioAOutcome ==
  ~hist.anyFail =>
    /\ \A c \in LiveCalls(inFlight) :
         /\ c.api = "type"
         /\ c.id = 1 => c.text = <<"h","e","l">>
         /\ c.id = 2 => c.text = <<"l","o">>
    /\ (hist.nUpdates = 4 /\ QueueSettled(liveTypeQueue, inFlight)) =>
         focusTarget = <<"h","e","l","l","o"," ","w","o","r","l","d">>
    /\ (Closed /\ hist.nUpdates = 5) =>
         /\ focusTarget = <<"h","e","l","l","o"," ","w","o","r","l","d">>
         /\ \A i \in DOMAIN hist.finLog : hist.finLog[i].api # "replace"

\* ============================================================ scenario B
\* whisperTranscribe returns a fixed script of results at three ticks.
ScenarioB ==
  << <<"h","i">>,
     <<"h","i"," ","t","h","e","r","e">>,
     <<"h","i"," ","t","h","e","r","e"," ","f","r","i","e","n","d">> >>

\* The interval fires and submits the buffered audio.
ScenarioBTick ==
  /\ hist.nEvents < Len(ScenarioB)
  /\ OnPeriodicTick

\* The periodic submission returns the next result of the script.
ScenarioBResult ==
  /\ sendPc = "tick"
  /\ hist.nEvents < Len(ScenarioB)
  /\ TranscribeResolve(ScenarioB[hist.nEvents + 1])

\* A whisper session whose three periodic submissions return the script.
ScenarioBNext ==
  \/ SettingsLoaded("whisper", DefaultLanguage)
  \/ StartListening
  \/ GetUserMediaOk("ok")
  \/ RecorderOnStart
  \/ FocusTimerFire
  \/ \E size \in ChunkSizes : DataAvailable(size)
  \/ ScenarioBTick
  \/ BufferReady
  \/ ScenarioBResult
  \/ \E c \in inFlight, ok \in BOOLEAN : CompleteLiveCall(c, ok)

ScenarioBSpec == Init /\ [][ScenarioBNext]_vars

\* C16 (as claimed): in scenario B with every injection succeeding, once
\* the three results have been handled and the typing queue has settled,
\* three edits have been issued, one per tick, and the focus target holds
\* "hi there friend".
C16_ScenarioBOutcome ==
  ( /\ ~hist.anyFail
    /\ hist.nUpdates = Len(ScenarioB)
    /\ QueueSettled(liveTypeQueue, inFlight) ) =>
      /\ hist.begun = <<1, 2, 3>>
      /\ focusTarget = ScenarioB[3]

\* C17 (as claimed): when a submission fails with an authorization error the
\* session enters Error, the periodic timer is cleared, the recorder is
\* stopped and dropped and the microphone is released; from then on no
\* interval tick submits audio.
C17_FatalErrorStopsSession ==
  /\ [][ (sendPc # "none" /\ TranscribeReject(TRUE)) =>
           /\ state' = "error"
           /\ ~periodicTimerRef'
           /\ ~mediaRecorderRef'
           /\ recorderState' # "recording"
           /\ ~MicrophoneOpen' ]_vars
  /\ [](hist.fatal => ~ENABLED OnPeriodicTick)
  /\ [][hist.fatal => ~(sendPc' # sendPc /\ sendPc' \in {"tickBuffer", "tick"})]_vars

\* C18 (as claimed): once the lifecycle state is Error, none of
\* combinedTranscriptRef, committedTextRef, typedCountRef and
\* liveTypedTextRef changes any more and no typeTextLive, replaceLiveText or
\* pasteText call is issued, whatever event, tick or stop trigger arrives.
C18_ErrorIsTerminal ==
  [][ state = "error" =>
        /\ combinedTranscriptRef' = combinedTranscriptRef
        /\ committedTextRef' = committedTextRef
        /\ typedCountRef' = typedCountRef
        /\ liveTypedTextRef' = liveTypedTextRef
        /\ inFlight' \subseteq inFlight ]_vars

\* C19 (as claimed): the backend of a session is fixed when listening
\* starts: when finalizeAndClose begins in a session that has started, the
\* backend it reads to choose its stop path (backendRef) is the backend
\* whose start path ran in startListening, also when the settings load
\* resolves after startListening has begun.
C19_StopPathMatchesStartPath ==
  [][ (~finalizingRef /\ finalizingRef' /\ backend # "none") =>
        backendRef = backend ]_vars

\* The resources a session holds are released: the interval is cleared, the
\* recorder is not recording, the recognizer is stopped or its listener
\* disposed, and the audio stream is closed.
C20_Released ==
  /\ ~periodicTimerRef
  /\ recorderState # "recording"
  /\ ~NativeListening
  /\ ~mediaStreamRef

\* C20 (as claimed): in every execution of finalizeAndClose the periodic
\* timer or the recognizer is stopped and the audio resources are released
\* by the time finalize moves on to the final transcription, the drain of the
\* typing queue and the reconciliation, so that no failure of those steps
\* can prevent the release.
C20_FinalizeReleasesResources ==
  [][ (finPc \in {"none", "flushWait"} /\ finPc' \notin {"none", "flushWait"}) =>
        C20_Released' ]_vars

\* ------------------------------------------------- progress of finalize
\* What is left for a finalize to do: the stage finalizeAndClose is in,
\* weighted above the edits of the typing queue and the transcription that
\* have not returned.
FinalizeStage ==
  CASE finPc = "none"        -> 8
    [] finPc = "flushWait"   -> 7
    [] finPc = "waitInflight" -> 6
    [] finPc = "finalFlush"  -> 5
    [] finPc = "drain"       -> 4
    [] finPc = "paste"       -> 3
    [] finPc = "replace"     -> 3
    [] finPc = "clipboard"   -> 2
    [] OTHER                 -> 0

\* Steps a pending sendTranscription still has to take.
SendLeft ==
  CASE sendPc \in {"tickBuffer", "finalBuffer"} -> 2
    [] sendPc \in {"tick", "final"} -> 1
    [] OTHER -> 0

FinalizeRank ==
  10 * FinalizeStage + Len(liveTypeQueue) + Cardinality(inFlight) + SendLeft

\* Some pending step of finalize can be taken: a timer of finalizeAndClose
\* can fire, the audio buffer can be delivered, or an awaited capability
\* call (whisperTranscribe, typeTextLive, replaceLiveText, pasteText,
\* clipboardWrite) can return.
FinalizeCanProgress ==
  \/ finPc = "flushWait"                             \* FinalizeAfterFlushWait
  \/ finPc = "waitInflight" /\ ~transcribeInFlightRef \* FinalizeFinalFlush
  \/ sendPc \in {"tickBuffer", "finalBuffer"}         \* BufferReady
  \/ sendPc \in {"tick", "final"}                     \* TranscribeResolve / Reject
  \/ finPc = "clipboard"                             \* ClipboardDone
  \/ LiveCalls(inFlight) # {}                        \* CompleteLiveCall
  \/ \E c \in inFlight : c.src = "finalize"          \* CompleteFinalizeCall

\* C21: a finalize that has begun completes and calls onClose exactly once,
\* provided each capability call returns.  onClose has been called once for
\* every finalize that has completed and not at all for the one in progress;
\* until it is called some pending step of finalize or some awaited call can
\* always be taken; every such step strictly lowers FinalizeRank and no
\* other step raises it.  Under weak fairness of those steps the finalize
\* therefore reaches onClose.
C21_FinalizeCompletesOnce ==
  /\ [](hist.closeCalls
          = hist.finalizeRuns - (IF finPc \in {"none", "closed"} THEN 0 ELSE 1))
  /\ [](finPc = "closed" => Closed /\ hist.finalizeRuns > 0)
  /\ [][hist'.closeCalls # hist.closeCalls =>
          /\ hist'.closeCalls = hist.closeCalls + 1
          /\ finalizingRef'
          /\ finPc' = "closed"]_vars
  /\ []((finalizingRef /\ finPc # "closed") => FinalizeCanProgress)
  /\ [][finalizingRef =>
          /\ FinalizeRank' <= FinalizeRank
          /\ (<<finPc, liveTypeQueue, inFlight, sendPc>>'
                # <<finPc, liveTypeQueue, inFlight, sendPc>>)
               => FinalizeRank' < FinalizeRank]_vars

\* A finalize that went through the in-flight wait, the final flush, the
\* drain and a reconciliation call has closed the session.
C21_Witness ==
  /\ Closed
  /\ hist.closeCalls = 1
  /\ hist.finalizeRuns = 1
  /\ hist.finLog # <<>>
  /\ backendRef = "whisper"
  /\ hist.nUpdates > 0

\* ------------------------------------------- non-fatal transcription error
\* C22: when a periodic submission of a listening session, its component
\* still mounted, fails with a non-fatal error, the session stays in Listening, combinedTranscript and
\* liveTypedText are unchanged, the in-flight guard is cleared, the interval
\* stays armed, and the interval callback passes its guards again with the
\* same accumulated audio, so the next tick resubmits it.
C22_NonFatalErrorKeepsListening ==
  [][(state = "listening" /\ ~finalizingRef /\ sendPc = "tick"
        /\ ~hist.unmounted /\ TranscribeReject(FALSE))
      => /\ state' = "listening"
         /\ combinedTranscriptRef' = combinedTranscriptRef
         /\ liveTypedTextRef' = liveTypedTextRef
         /\ ~transcribeInFlightRef'
         /\ periodicTimerRef /\ periodicTimerRef'
         /\ audioChunksRef' = audioChunksRef
         /\ TickGuard(transcribeInFlightRef', finalizingRef')
         /\ Len(audioChunksRef') # 0
         /\ SumSeq(audioChunksRef') >= MinBlobBytes]_vars

\* A listening session whose first submission failed without a fatal error
\* has a second submission of the same audio in flight.
C22_Witness ==
  /\ state = "listening"
  /\ ~finalizingRef
  /\ sendPc = "tick"
  /\ hist.nEvents = 1
  /\ ~hist.fatal
  /\ hist.nUpdates = 0
  /\ combinedTranscriptRef = <<>>
  /\ periodicTimerRef

\* ------------------------------------------------------- start-up failures
\* The session whose audio acquisition failed: no backend was started, no
\* transcript exists and no edit was queued or issued.
C23_NeverStarted ==
  /\ startPc = "failed"
  /\ state # "listening"
  /\ ~mediaStreamRef
  /\ ~mediaRecorderRef
  /\ ~periodicTimerRef
  /\ ~nativeChunkDisposerRef
  /\ ~nativeRunning
  /\ sendPc = "none"
  /\ combinedTranscriptRef = <<>>
  /\ liveTypedTextRef = <<>>
  /\ liveTypeQueue = <<>>
  /\ inFlight = {}
  /\ hist.nUpdates = 0
  /\ hist.begun = <<>>
  /\ hist.finLog = <<>>

\* C23 (as claimed): a failed getUserMedia takes a session that has never
\* listened to Error with no backend started, an empty combinedTranscript
\* and no typing call, and it stays so for the rest of the session; a failed
\* whisperStartNative takes the session to Error with the microphone
\* released.
C23_StartFailures ==
  /\ [](startPc \in {"mounted", "acquiring"} =>
          state # "listening" /\ hist.nUpdates = 0 /\ hist.begun = <<>>)
  /\ [][GetUserMediaFail => state' = "error" /\ C23_NeverStarted']_vars
  /\ [][(C23_NeverStarted /\ state = "error")
          => (C23_NeverStarted' /\ state' \in {"error", "processing"})]_vars
  /\ [][(C23_NeverStarted /\ state = "processing")
          => (C23_NeverStarted' /\ state' = "processing")]_vars
  /\ [][NativeStartFail =>
          state' = "error" /\ ~MicrophoneOpen' /\ ~mediaRecorderRef'
            /\ ~periodicTimerRef']_vars

\* ------------------------------------------------ finalize reconciliation
\* The step in which finalizeAndClose, past its await of the typing queue,
\* compares the two refs (recorded in hist.reconLive and hist.reconBase),
\* and the capability calls finalize issues in that step.
C24_ReconcileStep == ~hist.drained /\ hist'.drained
C24_Issued == {c \in inFlight' \ inFlight : c.src = "finalize"}

\* C24: with the normalized liveTypedText non-empty, the reconciliation
\* issues exactly one replaceLiveText(liveTypedText, combinedTranscript) when
\* it differs from the normalized combinedTranscript and no edit when the two
\* are identical, and never a pasteText.
C24_ReconciliationEdit ==
  [][(C24_ReconcileStep /\ normalizeTranscript(hist'.reconLive) # <<>>)
      => /\ \A c \in C24_Issued : c.api # "paste"
         /\ IF normalizeTranscript(hist'.reconLive)
                 # normalizeTranscript(hist'.reconBase)
              THEN /\ Cardinality(C24_Issued) = 1
                   /\ \A c \in C24_Issued :
                        /\ c.api = "replace"
                        /\ c.old = hist'.reconLive
                        /\ c.text = hist'.reconBase
              ELSE /\ C24_Issued = {}
                   /\ finPc' = "closed"]_vars

\* ------------------------------------------------------- lifecycle edges
C25_Edges ==
  { <<"idle", "listening">>, <<"idle", "error">>,
    <<"listening", "processing">>, <<"listening", "error">> }

\* C25: the lifecycle state changes only along Idle -> Listening,
\* Idle -> Error, Listening -> Processing and Listening -> Error, and the
\* session is closed (Done) only from Processing and changes state no more.
C25_LifecycleEdges ==
  [][/\ state' # state => <<state, state'>> \in C25_Edges
     /\ (~Closed /\ Closed') => state' = "processing"
     /\ Closed => state' = state]_vars

\* ------------------------------------------------------ finalize ordering
\* The step in which finalizeAndClose reaches its await of the typing queue.
C26_ReachesQueueAwait ==
  /\ finPc # "drain" /\ ~hist.drained
  /\ finPc' = "drain" \/ hist'.drained

\* C26: finalizeAndClose first stops the interval (whisper path) or the
\* recognizer and its listener (native path) of the backend it reads; it
\* reaches its await of the typing queue only when the final transcription
\* has been submitted and has returned, or when there was no audio to submit;
\* and it reads and compares the two refs only when no edit is queued or in
\* flight and no transcription is outstanding.
C26_FinalizeOrdering ==
  /\ [][(~finalizingRef /\ finalizingRef') =>
          /\ backendRef = "whisper" => ~periodicTimerRef'
          /\ backendRef # "whisper" =>
               ~nativeRunning' /\ ~nativeChunkDisposerRef']_vars
  /\ [][C26_ReachesQueueAwait =>
          \/ finPc = "finalFlush" /\ sendPc = "final" /\ sendPc' = "none"
               /\ hist'.outstanding = 0
          \/ finPc \in {"none", "flushWait", "waitInflight"}
               /\ Len(audioChunksRef) = 0 /\ ~transcribeInFlightRef
               /\ sendPc = "none"
          \/ finPc = "none" /\ backendRef # "whisper"]_vars
  /\ [](finPc \in {"flushWait", "waitInflight", "finalFlush"}
          => ~hist.drained)
  /\ [][C24_ReconcileStep =>
          /\ liveTypeQueue' = <<>>
          /\ LiveCalls(inFlight') = {}
          /\ sendPc' = "none"
          /\ hist'.outstanding = 0
          /\ hist'.reconBase = combinedTranscriptRef'
          /\ hist'.reconLive = liveTypedTextRef']_vars

\* A whisper session whose only submission was the final flush (the audio
\* was too short for a periodic one): its edit has completed and finalize
\* has compared the refs and found them equal.
C26_Witness ==
  /\ hist.drained
  /\ Closed
  /\ backendRef = "whisper"
  /\ Len(audioChunksRef) > 0
  /\ SumSeq(audioChunksRef) < MinBlobBytes
  /\ hist.nUpdates = 1
  /\ hist.finLog = <<>>
  /\ liveTypedTextRef # <<>>
  /\ hist.reconLive = liveTypedTextRef
  /\ hist.reconBase = liveTypedTextRef
  /\ ~periodicTimerRef

\* ------------------------------------------------------- the ended event
\* The listener receives 'ended' with no finalize begun and a transcript.
C27_EndedWithTranscript ==
  NativeListening /\ ~finalizingRef /\ combinedTranscriptRef # <<>>

\* C27: an 'ended' event received while finalize has not begun and
\* combinedTranscript is non-empty does what a stop request does: it sets
\* finalizingRef, cancels the delayed focus restore, enters Processing and
\* runs the body of finalizeAndClose once on the path of backendRef; from
\* there some step of finalize can always be taken until onClose is called,
\* and each one lowers FinalizeRank.
C27_EndedStartsFinalize ==
  /\ [][(C27_EndedWithTranscript /\ NativeEnded) =>
          /\ finalizingRef'
          /\ state' = "processing"
          /\ ~editorFocusRestoreTimerRef'
          /\ hist'.finalizeRuns = hist.finalizeRuns + 1
          /\ hist'.stopTriggers = hist.stopTriggers
          /\ finPc' # "none"
          /\ (backendRef = "whisper" /\ mediaRecorderRef
                /\ recorderState # "inactive") => finPc' = "flushWait"
          /\ (backendRef # "whisper" /\ ~QueueSettled(liveTypeQueue, inFlight))
               => finPc' = "drain"
          /\ hist'.drained => hist'.reconBase = combinedTranscriptRef
          /\ backendRef # "whisper" =>
               ~nativeChunkDisposerRef' /\ ~nativeRunning' /\ ~mediaStreamRef'
          /\ finPc' # "closed" => (FinalizeCanProgress' /\ FinalizeRank' > 0)]_vars
  /\ []((finalizingRef /\ hist.stopTriggers = 0 /\ finPc # "closed")
          => FinalizeCanProgress /\ FinalizeRank > 0)
  /\ [][(finalizingRef /\ hist.stopTriggers = 0 /\ FinalizeRank' # FinalizeRank)
          => FinalizeRank' < FinalizeRank]_vars

\* A session closed with no stop request: the finalize was started by the
\* 'ended' event.
C27_Witness ==
  /\ Closed
  /\ hist.stopTriggers = 0
  /\ hist.finalizeRuns = 1
  /\ combinedTranscriptRef # <<>>
  /\ ~nativeRunning

\* ------------------------------------------------------- error teardown
\* A step in which a backend error takes the session to Error: an error
\* chunk of the recognizer, recorder.onerror, or a fatal transcription error.
C28_BackendErrorStep ==
  /\ state # "error"
  /\ state' = "error"
  /\ NativeError \/ RecorderOnError \/ TranscribeReject(TRUE)

\* C28: when a backend error takes the session to Error, the interval is
\* cleared, the recognizer is stopped and its listener removed, and the
\* microphone tracks are stopped.
C28_ErrorTearsDown ==
  [][C28_BackendErrorStep =>
       /\ ~periodicTimerRef'
       /\ ~nativeRunning'
       /\ ~nativeChunkDisposerRef'
       /\ ~mediaStreamRef']_vars

\* ------------------------------------------------------- focus restore
\* C29: restoreLastFrontmostApp is invoked at most once per session: the
\* count never exceeds one, it only ever moves from zero to one, and once the
\* call has been made the guard is set and no delayed restore is armed.
C29_RestoreAtMostOnce ==
  /\ [](hist.restoreCalls <= 1)
  /\ [](hist.restoreCalls = 1 =>
          editorFocusRestoredRef /\ ~editorFocusRestoreTimerRef)
  /\ [](editorFocusRestoreTimerRef => editorFocusRestoredRef)
  /\ [][hist.restoreCalls' # hist.restoreCalls =>
          hist.restoreCalls = 0 /\ hist.restoreCalls' = 1]_vars

\* The delayed restore was scheduled at the start and fired, two transcript
\* updates asked for an immediate restore, and the session was finalized and
\* closed: one invocation.
C29_Witness ==
  /\ Closed
  /\ startPc = "started"
  /\ hist.nUpdates = 2
  /\ hist.restoreCalls = 1
  /\ ~hist.restoreCancelled
  /\ hist.stopTriggers = 1

\* -------------------------------------------------------- committed text
\* Two texts joined by a single space; the second alone when the first is
\* empty.
C30_Join(a, b) == IF a = <<>> THEN b ELSE a \o <<" ">> \o b

\* C30: committedText starts empty; every transcript event with a non-empty
\* normalized text p that the listener handles folds p as
\* committedText + " " + p (p alone when committedText is empty), and a final
\* one makes that text the new committedText in the same step, while its
\* typing operation is still queued or in flight; nothing else changes
\* committedText, in particular not the return of a typing call, successful
\* or not.  Hence committedText is the non-empty finals joined by single
\* spaces.
C30_CommittedText ==
  /\ [](startPc = "mounted" => committedTextRef = <<>>)
  /\ [][\A raw \in RawTranscripts, isFinal \in BOOLEAN :
          (NativeListening /\ ~finalizingRef
             /\ hist'.nUpdates # hist.nUpdates
             /\ normalizeTranscript(raw) # <<>>
             /\ OnNativeTranscript(raw, isFinal)) =>
            /\ combinedTranscriptRef' =
                 C30_Join(committedTextRef, normalizeTranscript(raw))
            /\ committedTextRef' =
                 IF isFinal
                   THEN C30_Join(committedTextRef, normalizeTranscript(raw))
                   ELSE committedTextRef
            /\ liveTypedTextRef' = liveTypedTextRef
            /\ typedCountRef' = typedCountRef
            /\ (Len(combinedTranscriptRef') > typedCountRef =>
                  liveTypeQueue' # <<>> \/ LiveCalls(inFlight') # {})]_vars
  /\ [][committedTextRef' # committedTextRef =>
          \/ \E raw \in RawTranscripts :
               normalizeTranscript(raw) # <<>> /\ ~finalizingRef
                 /\ OnNativeTranscript(raw, TRUE)
          \/ StartListening]_vars
  /\ [][(\E c \in inFlight : c \notin inFlight')
          => committedTextRef' = committedTextRef]_vars

\* Two finals "a" were committed as "a a" although the typing of the first
\* failed and nothing of the second has been typed.
C30_Witness ==
  /\ committedTextRef = <<"a", " ", "a">>
  /\ combinedTranscriptRef = committedTextRef
  /\ hist.anyFail
  /\ typedCountRef = 0
  /\ liveTypedTextRef = <<>>

\* ------------------------------------------------- append-only strategy
\* C31: in a session started on the native backend no replaceLiveText is
\* issued before finalize; an append closure reaches typeTextLive only when
\* its transcript is longer than typedCount, and then with the text past
\* typedCount; an update that arrives on a settled queue with a transcript
\* no longer than typedCount issues no call and leaves typedCount and
\* liveTypedText unchanged; the two refs change only when a call returns.
C31_AppendOnlyNeverDeletes ==
  /\ [](backend = "native" =>
          /\ \A c \in inFlight :
               c.api = "replace" => (c.src = "finalize" /\ finalizingRef)
          /\ \A i \in DOMAIN liveTypeQueue : liveTypeQueue[i].kind = "append")
  /\ [](\A c \in LiveCalls(inFlight) :
          c.kind = "append" =>
            /\ c.api = "type"
            /\ Len(c.full) > typedCountRef
            /\ c.text = Slice(c.full, typedCountRef)
            /\ c.text # <<>>)
  /\ [][(backend = "native" /\ hist'.nUpdates # hist.nUpdates
           /\ Len(combinedTranscriptRef') <= typedCountRef)
          => /\ LiveCalls(inFlight') = LiveCalls(inFlight)
             /\ typedCountRef' = typedCountRef
             /\ liveTypedTextRef' = liveTypedTextRef]_vars
  /\ [][(backend = "native" /\ backend' = "native"
           /\ (typedCountRef' # typedCountRef
                 \/ liveTypedTextRef' # liveTypedTextRef))
          => \E c \in LiveCalls(inFlight) :
               c \notin inFlight' /\ c.api = "type"]_vars

\* "ab" has been typed and a shorter partial "a" has arrived on the settled
\* queue: no call, nothing waiting.
C31_Witness ==
  /\ backend = "native"
  /\ ~finalizingRef
  /\ typedCountRef = 2
  /\ liveTypedTextRef = <<"a", "b">>
  /\ combinedTranscriptRef = <<"a">>
  /\ hist.nUpdates = 2
  /\ inFlight = {}
  /\ liveTypeQueue = <<>>

\* ---------------------------------------------------- release of the audio
\* C32: in every state of a session, before acquisition, after it or after
\* an error, stopVisualizer leaves no stream, no analysis graph and no
\* scheduled frame and does not fail, whether or not disconnect() or close()
\* throws; calling it again leaves the same refs, releases nothing more and
\* does not fail either.  The five refs are always all set or all null.
C32_ReleaseIdempotent ==
  /\ [](\A t1, t2 \in BOOLEAN :
          LET once == stopVisualizer(visualizerRefs, mediaStreamRef, t1)
              twice == stopVisualizer(once.refs, once.mediaStreamRef, t2)
          IN /\ once.refs = NoVisualizer
             /\ ~once.mediaStreamRef
             /\ ~once.failed
             /\ once.tracksStopped = mediaStreamRef
             /\ twice.refs = once.refs
             /\ twice.mediaStreamRef = once.mediaStreamRef
             /\ ~twice.failed
             /\ ~twice.cancelled /\ ~twice.disconnected
             /\ ~twice.closed /\ ~twice.tracksStopped)
  /\ [](IF mediaStreamRef
          THEN visualizerRefs
                 = startVisualizer(visualizerRefs, mediaStreamRef, "ok").refs
          ELSE visualizerRefs = NoVisualizer)
  /\ [][(GetUserMediaFail \/ NativeStartFail \/ NativeError
           \/ FinalizeAfterFlushWait \/ TranscribeReject(TRUE)
           \/ (~finalizingRef /\ finalizingRef' /\ finPc' # "flushWait"))
          => (~mediaStreamRef' /\ visualizerRefs' = NoVisualizer)]_vars

\* stopVisualizer ran in the catch of a failed start and again in the
\* finalize that followed.
C32_Witness ==
  /\ startPc = "failed"
  /\ hist.finalizeRuns = 1
  /\ finPc # "none"
  /\ ~mediaStreamRef
  /\ visualizerRefs = NoVisualizer

\* ------------------------------------------ buffered backend: typed text
\* C33: in a session started on the whisper backend, whenever no edit of the
\* typing queue is waiting or in flight (and finalize has issued no call of
\* its own) the text inserted in the focus target equals liveTypedText.
C33_FocusEqualsLiveTyped ==
  ( /\ backend = "whisper"
    /\ QueueSettled(liveTypeQueue, inFlight)
    /\ inFlight = {}
    /\ hist.finLog = <<>> )
  => focusTarget = liveTypedTextRef

\* ------------------------------------------------------------ typedCount
\* C34: in a session started on the native backend typedCount never
\* decreases, and in every state it is the total length of the deltas whose
\* typeTextLive reported success and the length of liveTypedText.
C34_TypedCountAccounting ==
  /\ [](backend = "native" =>
          /\ typedCountRef = Len(hist.typedDeltas)
          /\ typedCountRef = Len(liveTypedTextRef))
  /\ [][(backend = "native" /\ backend' = "native")
          => typedCountRef' >= typedCountRef]_vars

\* Two updates "a" and "ab" were typed by two successful calls: the count is
\* 2 after deltas "a" and "b".
C34_Witness ==
  /\ backend = "native"
  /\ typedCountRef = 2
  /\ liveTypedTextRef = <<"a", "b">>
  /\ hist.typedDeltas = <<"a", "b">>
  /\ hist.begun = <<1, 2>>
  /\ hist.lastDone.id = 2

\* ------------------------------------------------- focus before typing
\* C35: no typeTextLive or replaceLiveText call of the typing queue has begun
\* before restoreLastFrontmostApp has been invoked for the session.
C35_RestoreBeforeTyping ==
  (LiveCalls(inFlight) # {} \/ hist.begun # <<>>) => hist.restoreCalls >= 1

\* ------------------------------------------------------------ auto-start
\* C36: whatever the order of the settings load and the 80 ms timer,
\* startListening is invoked exactly once after the mount: it is entered
\* only from the armed timer, never a second time, and as long as it has not
\* been entered, no finalize has begun and the component is mounted, the
\* timer is still armed.
C36_AutoStartOnce ==
  /\ [][startPc' # startPc =>
          \/ startPc = "mounted" /\ startPc' = "acquiring"
          \/ startPc = "mounted" /\ startPc' = "cancelled" /\ hist'.unmounted
          \/ startPc # "mounted" /\ startPc' \notin {"mounted", "acquiring"}]_vars
  /\ []((~finalizingRef /\ backend = "none" /\ ~hist.unmounted)
          => startPc = "mounted")

\* ------------------------------------------- stop during the start-up
\* What startListening acquires: the stream of the visualizer, the recorder,
\* the interval of the periodic transcription, the recognizer process.
C37_Held ==
  mediaStreamRef \/ mediaRecorderRef \/ periodicTimerRef \/ nativeRunning

\* C37: when a stop trigger arrived while startListening was awaiting the
\* microphone or the recognizer, then once finalize has completed (onClose
\* was called) no step acquires a stream, a recorder, the interval or the
\* recognizer, and once the component is removed none of them is held.
C37_NoLateAcquisition ==
  /\ [][(hist.stopTriggers >= 1 /\ hist.closeCalls > 0) =>
          /\ mediaStreamRef' => mediaStreamRef
          /\ mediaRecorderRef' => mediaRecorderRef
          /\ periodicTimerRef' => periodicTimerRef
          /\ nativeRunning' => nativeRunning]_vars
  /\ []((hist.stopTriggers >= 1 /\ hist.unmounted) => ~C37_Held)

\* ------------------------------------------------ ended without transcript
\* The step in which the recognizer process exits by itself while the
\* listener is registered and combinedTranscript is empty: not a stop
\* trigger, not the failed start, not the removal of the component.
C38_EndedWhileEmpty ==
  /\ NativeListening
  /\ combinedTranscriptRef = <<>>
  /\ ~nativeRunning'
  /\ startPc' = startPc
  /\ hist'.stopTriggers = hist.stopTriggers
  /\ hist'.unmounted = hist.unmounted

\* C38: an ended event received while combinedTranscript is empty leaves the
\* lifecycle state, the transcript fields, the typing queue and the
\* finalizing flag as they are, starts no finalize and calls no onClose;
\* afterwards, with the recognizer gone, finalize begins only with a stop
\* trigger, and onClose is only ever called by a finalize.
C38_EndedEmptyChangesNothing ==
  /\ [][C38_EndedWhileEmpty =>
          /\ UNCHANGED <<state, refs, finalizingRef, finPc, queueVars>>
          /\ hist'.finalizeRuns = hist.finalizeRuns
          /\ hist'.closeCalls = hist.closeCalls]_vars
  /\ [][(backend = "native" /\ ~nativeRunning /\ ~finalizingRef /\ finalizingRef')
          => hist'.stopTriggers = hist.stopTriggers + 1]_vars
  /\ [][hist'.closeCalls # hist.closeCalls => finalizingRef']_vars

\* The recognizer has ended in a listening session without any transcript,
\* and the session is still open.
C38_Witness ==
  /\ backend = "native"
  /\ startPc = "started"
  /\ state = "listening"
  /\ nativeChunkDisposerRef
  /\ ~nativeRunning
  /\ combinedTranscriptRef = <<>>
  /\ ~finalizingRef
  /\ hist.closeCalls = 0

====
